---- MODULE Spec2Model ----
(***************************************************************************)
(* A model of PyDX: the blob decoders of pydx/parsers.py, the lazy blob    *)
(* holder and the feature lookups of pydx/db.py.                           *)
(*                                                                         *)
(* Bytes are naturals 0..255, blobs are sequences of bytes.  A call's      *)
(* outcome is a record: exc = "" and the returned arrays, or exc = the     *)
(* name of the Python exception that left the call and no arrays.          *)
(***************************************************************************)
EXTENDS Integers, Sequences, FiniteSets, TLC

VARIABLES
    numpy_wraps,  \* the installed NumPy casts out-of-range Python ints (NumPy 1.x); NumPy 2 raises
    frame,        \* per thread: the decode call it is in (parsers.py)
    xml,          \* the XML extractor call in progress (parsers.py)
    lazy,         \* the LazyBlob object: _data, _decoded (db.py)
    access,       \* per thread: its position in LazyBlob.data
    applied,      \* arguments the LazyBlob's decoder has been called with
    pydx          \* the PyDX object's last lookup and the queries issued

vars == <<numpy_wraps, frame, xml, lazy, access, applied, pydx>>

(***************************************************************************)
(* Bounds of the model.                                                    *)
(***************************************************************************)
MaxRecords == 2   \* records (stride 9), groups (stride 5), doubles (retention times) in a blob
MaxThreads == 2   \* threads calling the decoders / reading LazyBlob.data

Threads == 1..MaxThreads

(***************************************************************************)
(* Outcomes.                                                               *)
(***************************************************************************)
Ok(values, flags) == [exc |-> "", values |-> values, flags |-> flags]
Raise(exc) == [exc |-> exc, values |-> <<>>, flags |-> <<>>]
NoOutcome == [exc |-> "pending", values |-> <<>>, flags |-> <<>>]

(***************************************************************************)
(* Byte-level helpers: Python's bytes(b for i, b in enumerate(blb) if ..), *)
(* slicing, int.from_bytes and struct.unpack.                              *)
(***************************************************************************)
\* range(len(blb)): the indices enumerate(blb) gives, counted from 0
Indices(blb) == 0..(Len(blb) - 1)

\* bytes(b for i, b in enumerate(blb) if i in keep)
BytesWhere(blb, keep) ==
    LET idx == SelectSeq([i \in 1..Len(blb) |-> i - 1], LAMBDA i : i \in keep)
    IN  [k \in 1..Len(idx) |-> blb[idx[k] + 1]]

\* blb[lo:hi] with Python's clamping of the bounds, lo and hi counted from 0
Slice(blb, lo, hi) ==
    LET h == IF hi > Len(blb) THEN Len(blb) ELSE hi
    IN  IF lo >= h THEN <<>> ELSE SubSeq(blb, lo + 1, h)

\* int.from_bytes(b, "little") of at most 4 bytes
UIntLE(b) ==
    LET RECURSIVE go(_)
        go(k) == IF k > Len(b) THEN 0 ELSE b[k] + 256 * go(k + 1)
    IN  go(1)

\* int.from_bytes(b, "little", signed=True) of exactly 4 bytes
Int32LE(b) ==
    LET low == b[1] + 256 * b[2] + 65536 * b[3]
        top == IF b[4] >= 128 THEN b[4] - 256 ELSE b[4]
    IN  top * 16777216 + low

\* one '<d' item: the IEEE-754 binary64 number held in 8 little-endian bytes,
\* as its sign, biased exponent and 52-bit fraction (4 + 24 + 24 bits)
Float64(b) ==
    [sign     |-> b[8] \div 128,
     exponent |-> (b[8] % 128) * 16 + b[7] \div 16,
     frac_hi  |-> b[7] % 16,
     frac_mid |-> b[6] * 65536 + b[5] * 256 + b[4],
     frac_lo  |-> b[3] * 65536 + b[2] * 256 + b[1]]

\* struct.unpack('<' + 'd' * n, b): needs exactly 8 * n bytes
UnpackDoubles(n, b) ==
    IF Len(b) # 8 * n THEN Raise("struct.error")
    ELSE Ok([k \in 1..n |-> Float64(SubSeq(b, 8 * k - 7, 8 * k))], <<>>)

\* np.array(list of Python ints, dtype=np.uint<bits>): an int outside
\* 0..2^bits-1 is cast keeping its low bits by NumPy 1.x and raises
\* OverflowError in NumPy 2
NpArrayUInt(ints, bits) ==
    IF \A k \in 1..Len(ints) : ints[k] >= 0 /\ ints[k] < 2 ^ bits
    THEN Ok(ints, <<>>)
    ELSE IF numpy_wraps
         THEN Ok([k \in 1..Len(ints) |-> ints[k] % (2 ^ bits)], <<>>)
         ELSE Raise("OverflowError")

(***************************************************************************)
(* The decoders of parsers.py.                                             *)
(***************************************************************************)
\* a slip: the flag taken as the first byte of each record, not the last
decode_peak_ratings_flag_first(blb) ==
    IF Len(blb) % 9 # 0 THEN Raise("AssertionError")
    ELSE LET ratings_bytes == BytesWhere(blb, {i \in Indices(blb) : i % 9 # 0})
             ratings == UnpackDoubles(Len(ratings_bytes) \div 8, ratings_bytes)
             flag_bytes == BytesWhere(blb, {i \in Indices(blb) : i % 9 = 0})
         IN  IF ratings.exc # "" THEN ratings
             ELSE Ok(ratings.values, flag_bytes)

decode_peak_ratings(blb) ==
    IF Len(blb) % 9 # 0 THEN Raise("AssertionError")
    ELSE LET ratings_bytes == BytesWhere(blb, {i \in Indices(blb) : i % 9 # 8})
             ratings == UnpackDoubles(Len(ratings_bytes) \div 8, ratings_bytes)
             flag_bytes == BytesWhere(blb, {i \in Indices(blb) : i % 9 = 8})
         IN  IF ratings.exc # "" THEN ratings
             ELSE Ok(ratings.values, flag_bytes)

\* a slip: the length check left out
decode_peak_areas_unchecked(blb) ==
    LET area_bytes == BytesWhere(blb, {i \in Indices(blb) : i % 9 # 8})
        areas == UnpackDoubles(Len(area_bytes) \div 8, area_bytes)
        flag_bytes == BytesWhere(blb, {i \in Indices(blb) : i % 9 = 8})
    IN  IF areas.exc # "" THEN areas
        ELSE Ok(areas.values, flag_bytes)

decode_peak_areas(blb) ==
    IF Len(blb) % 9 # 0 THEN Raise("AssertionError")
    ELSE LET area_bytes == BytesWhere(blb, {i \in Indices(blb) : i % 9 # 8})
             areas == UnpackDoubles(Len(area_bytes) \div 8, area_bytes)
             flag_bytes == BytesWhere(blb, {i \in Indices(blb) : i % 9 = 8})
         IN  IF areas.exc # "" THEN areas
             ELSE Ok(areas.values, flag_bytes)

\* the list comprehension of both stride-5 decoders
Int32Groups(kept) ==
    [k \in 1..(Len(kept) \div 4) |-> Int32LE(SubSeq(kept, 4 * k - 3, 4 * k))]

decode_gap_fill_status(blb) ==
    LET kept == BytesWhere(blb, {j \in Indices(blb) : (j + 1) % 5 # 0})
    IN  IF Len(kept) % 4 # 0 THEN Raise("ValueError")
        ELSE NpArrayUInt(Int32Groups(kept), 16)

decode_gap_status(blb) ==
    LET kept == BytesWhere(blb, {j \in Indices(blb) : (j + 1) % 5 # 0})
    IN  IF Len(kept) % 4 # 0 THEN Raise("ValueError")
        ELSE NpArrayUInt(Int32Groups(kept), 8)

\* a slip: the count taken from the payload's length, the prefix ignored
decode_retention_times_by_length(blb) ==
    IF (Len(blb) - 4) % 8 # 0 THEN Raise("AssertionError")
    ELSE UnpackDoubles((Len(blb) - 4) \div 8, Slice(blb, 4, Len(blb)))

decode_retention_times(blb) ==
    IF (Len(blb) - 4) % 8 # 0 THEN Raise("AssertionError")
    ELSE LET blen == UIntLE(Slice(blb, 0, 4))
         IN  UnpackDoubles(blen, Slice(blb, 4, Len(blb)))

Decoders == {"decode_peak_ratings", "decode_peak_areas", "decode_gap_fill_status",
             "decode_gap_status", "decode_retention_times"}

\* a slip: one module-level result buffer, handed out again while another
\* caller still holds a result in it
DecodeSharedBuffer(dec, blb) ==
    LET fresh == CASE dec = "decode_peak_ratings"    -> decode_peak_ratings(blb)
                   [] dec = "decode_peak_areas"      -> decode_peak_areas(blb)
                   [] dec = "decode_gap_fill_status" -> decode_gap_fill_status(blb)
                   [] dec = "decode_gap_status"      -> decode_gap_status(blb)
                   [] dec = "decode_retention_times" -> decode_retention_times(blb)
        held == {u \in DOMAIN frame : frame[u].pc = "returned" /\ frame[u].blb # blb}
    IN  IF held = {} THEN fresh ELSE frame[CHOOSE u \in held : TRUE].out

Decode(dec, blb) ==
    CASE dec = "decode_peak_ratings"    -> decode_peak_ratings(blb)
      [] dec = "decode_peak_areas"      -> decode_peak_areas(blb)
      [] dec = "decode_gap_fill_status" -> decode_gap_fill_status(blb)
      [] dec = "decode_gap_status"      -> decode_gap_status(blb)
      [] dec = "decode_retention_times" -> decode_retention_times(blb)

(***************************************************************************)
(* Blobs handed to the decoders: whole records, and the same blobs with    *)
(* their last bytes cut off.                                               *)
(***************************************************************************)
SeqsUpTo(S, n) == UNION {[1..k -> S] : k \in 0..n}

Flatten(ss) ==
    LET RECURSIVE cat(_)
        cat(k) == IF k > Len(ss) THEN <<>> ELSE ss[k] \o cat(k + 1)
    IN  cat(1)

Chopped(blobs, cuts) ==
    {SubSeq(b, 1, Len(b) - c) : b \in {x \in blobs : Len(x) >= 8}, c \in cuts} \cup blobs

\* 1.0 with flag 1; a negative NaN carrying a payload with flag 255
Records9 == {<<0, 0, 0, 0, 0, 0, 240, 63, 1>>, <<1, 2, 3, 4, 5, 6, 247, 255, 255>>}
Blobs9 == Chopped({Flatten(s) : s \in SeqsUpTo(Records9, MaxRecords)}, {1, 8})

\* 300, -1 and 3, each followed by its padding byte
Groups5 == {<<44, 1, 0, 0, 0>>, <<255, 255, 255, 255, 9>>, <<3, 0, 0, 0, 7>>}
Blobs5 ==
    LET whole == {Flatten(s) : s \in SeqsUpTo(Groups5, MaxRecords)}
    IN  whole \cup {SubSeq(b, 1, Len(b) - c) : b \in whole \ {<<>>}, c \in {1, 4}}

\* a count prefix, some doubles, and possibly four bytes too many; blobs
\* shorter than the prefix
Prefixes == {<<n, 0, 0, 0>> : n \in 0..(MaxRecords + 1)} \cup {<<1, 1, 0, 0>>}
BlobsRT ==
    {p \o Flatten(d) \o tail :
        p \in Prefixes,
        d \in {[k \in 1..m |-> <<k, 0, 0, 0, 0, 0, 240, 63>>] : m \in 0..MaxRecords},
        tail \in {<<>>, <<7, 7, 7, 7>>}}
    \cup {<<>>, <<1>>, <<0, 0, 0>>}

Stride9 == {"decode_peak_ratings", "decode_peak_areas"}
Stride5 == {"decode_gap_fill_status", "decode_gap_status"}

Inputs(dec) ==
    IF dec \in Stride9 THEN Blobs9
    ELSE IF dec \in Stride5 THEN Blobs5
    ELSE BlobsRT

\* the blobs several threads decode at once
SharedInputs(dec) ==
    IF dec \in Stride9 THEN {b \in Blobs9 : Len(b) \in {8, 9}}
    ELSE IF dec \in Stride5 THEN {b \in Blobs5 : Len(b) \in {1, 5}}
    ELSE {b \in BlobsRT : Len(b) \in {3, 4}}

(***************************************************************************)
(* Callers of the decoders.  A call binds the blob, the body runs on that  *)
(* call's own locals, and the caller takes the outcome.                    *)
(***************************************************************************)
Idle == [pc |-> "idle", dec |-> "", blb |-> <<>>, out |-> NoOutcome]

Call(t, dec, blb) ==
    /\ frame[t].pc = "idle"
    /\ frame' = [frame EXCEPT ![t] = [pc |-> "running", dec |-> dec, blb |-> blb, out |-> NoOutcome]]
    /\ UNCHANGED <<numpy_wraps, xml, lazy, access, applied, pydx>>

Finish(t) ==
    /\ frame[t].pc = "running"
    /\ frame' = [frame EXCEPT ![t].pc = "returned",
                              ![t].out = Decode(frame[t].dec, frame[t].blb)]
    /\ UNCHANGED <<numpy_wraps, xml, lazy, access, applied, pydx>>

Return(t) ==
    /\ frame[t].pc = "returned"
    /\ frame' = [frame EXCEPT ![t] = Idle]
    /\ UNCHANGED <<numpy_wraps, xml, lazy, access, applied, pydx>>

(***************************************************************************)
(* The XML extractors of parsers.py.  A zipped XML blob is modelled by     *)
(* what the unwrapping finds in it: the state of the container, and the    *)
(* elements of the document with their text as a sequence of characters.   *)
(***************************************************************************)
MaxDoubles == 3    \* <double> entries of an IntensityRange
MaxChildren == 3   \* children of a PeakCentroids element

Digits == <<"0", "1", "2", "3", "4", "5", "6", "7", "8", "9">>

DigitValue(c) == (CHOOSE k \in 1..10 : Digits[k] = c) - 1

IsDigit(c) == \E k \in 1..10 : Digits[k] = c

\* an element (or attribute) of a document: absent, present without text
\* (.text is None), or present with text
Absent == [at |-> "absent", text |-> <<>>]
Empty == [at |-> "empty", text |-> <<>>]
Text(chars) == [at |-> "text", text |-> chars]

\* float(x) for x the .text of an element: None is a TypeError, text that is
\* no number a ValueError
ParseFloat(e) ==
    IF e.at # "text" THEN [exc |-> "TypeError", value |-> 0]
    ELSE IF e.text = <<>> \/ \E k \in 1..Len(e.text) : ~IsDigit(e.text[k])
         THEN [exc |-> "ValueError", value |-> 0]
         ELSE LET RECURSIVE num(_)
                  num(k) == IF k = 0 THEN 0 ELSE 10 * num(k - 1) + DigitValue(e.text[k])
              IN  [exc |-> "", value |-> num(Len(e.text))]

\* float(etree.find(tag).text): find gives None for an absent element
FindFloat(e) ==
    IF e.at = "absent" THEN [exc |-> "AttributeError", value |-> 0] ELSE ParseFloat(e)

\* zipfile.ZipFile(..), namelist()[0], read().decode('utf-8'),
\* ElementTree.fromstring: the exception each state of the container gives
Unwrap(container) ==
    CASE container = "ok"        -> ""
      [] container = "notzip"    -> "BadZipFile"
      [] container = "noentries" -> "IndexError"
      [] container = "notutf8"   -> "UnicodeDecodeError"
      [] container = "notxml"    -> "ElementTree.ParseError"

Containers == {"ok", "notzip", "noentries", "notutf8", "notxml"}

\* base64.b64decode(etree.find("Data").text)
DecodeData(data) ==
    CASE data = "ok"     -> ""
      [] data = "absent" -> "AttributeError"
      [] data = "empty"  -> "TypeError"
      [] data = "badb64" -> "binascii.Error"

\* low, high = (float(t.text) for t in doubles): the generator is advanced
\* twice for the two targets and once more to see that it is exhausted
UnpackLowHigh(doubles) ==
    LET f1 == ParseFloat(doubles[1])
        f2 == ParseFloat(doubles[2])
        f3 == ParseFloat(doubles[3])
    IN  IF Len(doubles) < 1 THEN [exc |-> "ValueError", low |-> 0, high |-> 0]
        ELSE IF f1.exc # "" THEN [exc |-> f1.exc, low |-> 0, high |-> 0]
        ELSE IF Len(doubles) < 2 THEN [exc |-> "ValueError", low |-> 0, high |-> 0]
        ELSE IF f2.exc # "" THEN [exc |-> f2.exc, low |-> 0, high |-> 0]
        ELSE IF Len(doubles) > 2
             THEN [exc |-> IF f3.exc # "" THEN f3.exc ELSE "ValueError", low |-> 0, high |-> 0]
             ELSE [exc |-> "", low |-> f1.value, high |-> f2.value]

decode_peak_model(blb) ==
    LET lh == UnpackLowHigh(blb.IntensityRange.doubles)
        apex == FindFloat(blb.ApexRT)
        left == FindFloat(blb.LeftRT)
        right == FindFloat(blb.RightRT)
        width == FindFloat(blb.Width)
    IN  IF Unwrap(blb.outer) # "" THEN Raise(Unwrap(blb.outer))
        ELSE IF DecodeData(blb.Data) # "" THEN Raise(DecodeData(blb.Data))
        ELSE IF Unwrap(blb.inner) # "" THEN Raise(Unwrap(blb.inner))
        ELSE IF ~blb.IntensityRange.present THEN Raise("AttributeError")
        ELSE IF lh.exc # "" THEN Raise(lh.exc)
        ELSE IF apex.exc # "" THEN Raise(apex.exc)
        ELSE IF left.exc # "" THEN Raise(left.exc)
        ELSE IF right.exc # "" THEN Raise(right.exc)
        ELSE IF width.exc # "" THEN Raise(width.exc)
        ELSE Ok([apexRT |-> apex.value, leftRT |-> left.value, rightRT |-> right.value,
                 width |-> width.value, intensityLow |-> lh.low, intensityHigh |-> lh.high], <<>>)

\* pk.attrib[name]: a missing attribute is a KeyError
AttribFloat(pk, name) ==
    IF pk.attrib[name].at = "absent" THEN [exc |-> "KeyError", value |-> 0]
    ELSE ParseFloat(pk.attrib[name])

\* the tuple the generator of decode_spectrum makes of one Peak
PeakRow(pk) ==
    LET x == AttribFloat(pk, "X")
        y == AttribFloat(pk, "Y")
        z == AttribFloat(pk, "Z")
        r == AttribFloat(pk, "R")
        sn == AttribFloat(pk, "SN")
    IN  IF x.exc # "" THEN [exc |-> x.exc, row |-> <<>>]
        ELSE IF y.exc # "" THEN [exc |-> y.exc, row |-> <<>>]
        ELSE IF z.exc # "" THEN [exc |-> z.exc, row |-> <<>>]
        ELSE IF r.exc # "" THEN [exc |-> r.exc, row |-> <<>>]
        ELSE IF sn.exc # "" THEN [exc |-> sn.exc, row |-> <<>>]
        ELSE [exc |-> "", row |-> <<x.value, y.value, z.value, r.value, sn.value>>]

\* a slip: the columns "intensity" and "Z" listed in each other's place
DataFrameRowSwapped(row) ==
    [mz |-> row[1], intensity |-> row[3], Z |-> row[2], resolution |-> row[4],
     signalNoiseRatio |-> row[5]]

\* pd.DataFrame(rows, columns=[...]): each row a record keyed by the columns
DataFrameRow(row) ==
    [mz |-> row[1], intensity |-> row[2], Z |-> row[3], resolution |-> row[4],
     signalNoiseRatio |-> row[5]]

decode_spectrum(blb) ==
    LET peaks == SelectSeq(blb.PeakCentroids.children, LAMBDA c : c.tag = "Peak")
        rows == [k \in 1..Len(peaks) |-> PeakRow(peaks[k])]
        failed == {k \in 1..Len(peaks) : rows[k].exc # ""}
    IN  IF Unwrap(blb.outer) # "" THEN Raise(Unwrap(blb.outer))
        ELSE IF ~blb.PeakCentroids.present THEN Raise("AttributeError")
        ELSE IF failed # {}
             THEN Raise(rows[CHOOSE k \in failed : \A j \in failed : k <= j].exc)
             ELSE Ok([k \in 1..Len(peaks) |-> DataFrameRow(rows[k].row)], <<>>)

Extract(fn, blb) ==
    IF fn = "decode_peak_model" THEN decode_peak_model(blb) ELSE decode_spectrum(blb)

(***************************************************************************)
(* Documents handed to the extractors.                                     *)
(***************************************************************************)
Elements == {Absent, Empty, Text(<<"7">>), Text(<<"1", "2">>), Text(<<"x">>)}
DoubleElements == {Text(<<"0">>), Text(<<"x">>)}

PeakModel(outer, data, inner, a, l, r, w, range) ==
    [outer |-> outer, Data |-> data, inner |-> inner, ApexRT |-> a, LeftRT |-> l,
     RightRT |-> r, Width |-> w, IntensityRange |-> range]

GoodRange == [present |-> TRUE, doubles |-> <<Text(<<"0">>), Text(<<"9">>)>>]

Ranges ==
    {[present |-> FALSE, doubles |-> <<>>], GoodRange}
    \cup {[present |-> TRUE, doubles |-> d] : d \in SeqsUpTo(DoubleElements, MaxDoubles)}

PeakModelBlobs ==
    LET good(o, d, i) == PeakModel(o, d, i, Text(<<"5">>), Text(<<"4">>), Text(<<"6">>),
                                   Text(<<"2">>), GoodRange)
    IN  {good(o, "ok", "ok") : o \in Containers}
        \cup {good("ok", d, "ok") : d \in {"absent", "empty", "badb64"}}
        \cup {good("ok", "ok", i) : i \in Containers}
        \cup {PeakModel("ok", "ok", "ok", a, Text(<<"4">>), Text(<<"6">>), w, range) :
                a \in Elements, w \in Elements, range \in Ranges}
        \cup {PeakModel("ok", "ok", "ok", Text(<<"5">>), l, r, Text(<<"2">>), GoodRange) :
                l \in Elements, r \in Elements}

Peak(x, y, z, r, sn) ==
    [tag |-> "Peak", attrib |-> [X |-> x, Y |-> y, Z |-> z, R |-> r, SN |-> sn]]

Children ==
    {Peak(Text(<<"1">>), Text(<<"2">>), Text(<<"3">>), Text(<<"4">>), Text(<<"5">>)),
     Peak(Text(<<"1", "2">>), Text(<<"7">>), Text(<<"2">>), Text(<<"1">>), Text(<<"3">>)),
     Peak(Text(<<"1">>), Text(<<"x">>), Text(<<"3">>), Text(<<"4">>), Text(<<"5">>)),
     Peak(Text(<<"1">>), Text(<<"2">>), Text(<<"3">>), Text(<<"4">>), Absent),
     [tag |-> "Other", attrib |-> [X |-> Absent, Y |-> Absent, Z |-> Absent, R |-> Absent,
                                   SN |-> Absent]]}

SpectrumBlobs ==
    {[outer |-> o, PeakCentroids |-> [present |-> TRUE, children |-> <<>>]] : o \in Containers}
    \cup {[outer |-> "ok", PeakCentroids |-> [present |-> FALSE, children |-> <<>>]]}
    \cup {[outer |-> "ok", PeakCentroids |-> [present |-> TRUE, children |-> c]] :
            c \in SeqsUpTo(Children, MaxChildren)}

XmlInputs(fn) == IF fn = "decode_peak_model" THEN PeakModelBlobs ELSE SpectrumBlobs

Extractors == {"decode_peak_model", "decode_spectrum"}

XmlIdle == [pc |-> "idle", fn |-> "", out |-> NoOutcome]

\* the blob of the call in progress is kept apart from xml, whose shape
\* differs between the two extractors
XmlCall(fn, blb) ==
    /\ xml.pc = "idle"
    /\ xml' = [pc |-> "running", fn |-> fn, blb |-> blb, out |-> NoOutcome]
    /\ UNCHANGED <<numpy_wraps, frame, lazy, access, applied, pydx>>

XmlFinish ==
    /\ xml.pc = "running"
    /\ xml' = [xml EXCEPT !.pc = "returned", !.out = Extract(xml.fn, xml.blb)]
    /\ UNCHANGED <<numpy_wraps, frame, lazy, access, applied, pydx>>

XmlReturn ==
    /\ xml.pc = "returned"
    /\ xml' = XmlIdle
    /\ UNCHANGED <<numpy_wraps, frame, lazy, access, applied, pydx>>

(***************************************************************************)
(* LazyBlob of db.py, holding a gap-fill-status blob.  Each statement of   *)
(* the data property is a step of the thread that runs it.                 *)
(***************************************************************************)
\* the decoder called on what the holder holds: bytes, or (a second time) the
\* array of a first decoding, whose items bytes() takes only within 0..255
LazyDecoder(data) ==
    IF \E k \in 1..Len(data) : k % 5 # 0 /\ data[k] > 255 THEN Raise("ValueError")
    ELSE decode_gap_fill_status(data)

\* 300; five groups whose values are again a decodable blob; a blob of a
\* length the decoder rejects
RawBlobs ==
    {<<44, 1, 0, 0, 0>>,
     <<3, 0, 0, 0, 0, 0, 0, 0, 0, 0, 0, 0, 0, 0, 0, 0, 0, 0, 0, 0, 7, 0, 0, 0, 0>>,
     <<1, 2, 3>>}

\* __init__; raw keeps the constructor's argument for the properties
LazyBlob(data) == [_data |-> data, _decoded |-> FALSE, raw |-> data]

NoAccess == [pc |-> "idle", res |-> NoOutcome, got |-> NoOutcome]

\* line 24: if not self._decoded
Test(t) ==
    /\ access[t].pc = "idle"
    /\ access' = [access EXCEPT ![t] = [pc |-> IF lazy._decoded THEN "return" ELSE "decode",
                                        res |-> NoOutcome, got |-> NoOutcome]]
    /\ UNCHANGED <<numpy_wraps, frame, xml, lazy, applied, pydx>>

\* line 25, right-hand side: self._decoder(self._data); an exception leaves
\* the property
Apply(t) ==
    /\ access[t].pc = "decode"
    /\ applied' = applied \cup {[arg |-> lazy._data, decoded |-> lazy._decoded]}
    /\ LET res == LazyDecoder(lazy._data)
       IN  access' = [access EXCEPT ![t] =
                        IF res.exc # "" THEN [pc |-> "idle", res |-> NoOutcome, got |-> res]
                        ELSE [pc |-> "store", res |-> res, got |-> NoOutcome]]
    /\ UNCHANGED <<numpy_wraps, frame, xml, lazy, pydx>>

\* line 25, assignment: self._data = ...
StoreData(t) ==
    /\ access[t].pc = "store"
    /\ lazy' = [lazy EXCEPT !._data = access[t].res.values]
    /\ access' = [access EXCEPT ![t].pc = "flag"]
    /\ UNCHANGED <<numpy_wraps, frame, xml, applied, pydx>>

\* line 26: self._decoded = True
SetDecoded(t) ==
    /\ access[t].pc = "flag"
    /\ lazy' = [lazy EXCEPT !._decoded = TRUE]
    /\ access' = [access EXCEPT ![t].pc = "return"]
    /\ UNCHANGED <<numpy_wraps, frame, xml, applied, pydx>>

\* line 27: return self._data
ReturnData(t) ==
    /\ access[t].pc = "return"
    /\ access' = [access EXCEPT ![t] = [pc |-> "idle", res |-> NoOutcome,
                                        got |-> Ok(lazy._data, <<>>)]]
    /\ UNCHANGED <<numpy_wraps, frame, xml, lazy, applied, pydx>>

(***************************************************************************)
(* The feature lookups of PyDX (db.py) over a database of joined rows.     *)
(***************************************************************************)
MaxIds == 2       \* feature ids in one lookup
MaxLookups == 3   \* lookups made on the PyDX object

FeatureIds == {1, 2, 3}

Lookups == {"get_chemspider_hits_for_feature", "get_mzcloud_search_results_for_feature",
            "get_compound_spectra"}

\* the rows the JOIN of each lookup ranges over, by feature id and joined item
JoinedRows(fn) ==
    CASE fn = "get_chemspider_hits_for_feature" ->
            {[FeatureID |-> 1, item |-> 10], [FeatureID |-> 1, item |-> 11], [FeatureID |-> 3, item |-> 10]}
      [] fn = "get_mzcloud_search_results_for_feature" ->
            {[FeatureID |-> 2, item |-> 20], [FeatureID |-> 3, item |-> 21]}
      [] fn = "get_compound_spectra" ->
            {[FeatureID |-> 1, item |-> 30], [FeatureID |-> 2, item |-> 31], [FeatureID |-> 2, item |-> 32]}

\* the aliases of each SELECT
Columns(fn) ==
    CASE fn = "get_chemspider_hits_for_feature" ->
            <<"FeatureID", "ChemSpiderID", "DeltaMass", "Score", "Structure", "Name",
              "Formula", "MolecularWeight", "InChi", "InChiKey">>
      [] fn = "get_mzcloud_search_results_for_feature" ->
            <<"FeatureID", "MzCloudID", "KeggId", "Name", "Formula", "MolecularWeight",
              "Structure", "DeltaMass", "Score", "Confidence", "Status">>
      [] fn = "get_compound_spectra" ->
            <<"FeatureID", "WorkflowID", "SpectrumID", "FileID", "MSn", "Polarity",
              "RetentionTime", "Resolution", "ActivationType", "ScanType", "Ionization",
              "MassAnalyzer", "Spectrum">>

\* the if/elif/else that builds where_clause
WhereClause(feature_ids) ==
    IF Len(feature_ids) = 1 THEN [exc |-> "", op |-> "=", ids |-> {feature_ids[1]}]
    ELSE IF Len(feature_ids) > 1
         THEN [exc |-> "", op |-> "IN", ids |-> {feature_ids[k] : k \in 1..Len(feature_ids)}]
         ELSE [exc |-> "ValueError", op |-> "", ids |-> {}]

\* the names a function of db.py can use: its parameters and the module's globals
DbNames ==
    {"self", "feature_ids", "sqlite3", "pd", "decode_gap_fill_status", "decode_spectrum",
     "automap_base", "create_engine", "inspect", "List", "Tuple", "Union",
     "sample_type_codes", "LazyBlob", "PyDX"}

\* pd.read_sql_query(sql, con=<name>.engine): the table and the query issued
ReadSqlQuery(fn, where, name) ==
    IF name \notin DbNames THEN [exc |-> "NameError", table |-> <<>>, issued |-> <<>>]
    ELSE [exc |-> "",
          table |-> <<[columns |-> Columns(fn),
                       rows |-> {r \in JoinedRows(fn) : r.FeatureID \in where.ids}]>>,
          issued |-> <<[con |-> name, select |-> fn, where |-> where.ids]>>]

\* the common body of the three lookups; name is the variable whose engine
\* the query is sent to
Lookup(fn, feature_ids, name) ==
    LET where == WhereClause(feature_ids)
    IN  IF where.exc # "" THEN [exc |-> where.exc, table |-> <<>>, issued |-> <<>>]
        ELSE ReadSqlQuery(fn, where, name)

get_chemspider_hits_for_feature(feature_ids) ==
    Lookup("get_chemspider_hits_for_feature", feature_ids, "self")

get_mzcloud_search_results_for_feature(feature_ids) ==
    Lookup("get_mzcloud_search_results_for_feature", feature_ids, "self")

get_compound_spectra(feature_ids) ==
    Lookup("get_compound_spectra", feature_ids, "idxa")

DbFresh == [fn |-> "", feature_ids |-> <<>>, out |-> [exc |-> "pending", table |-> <<>>, issued |-> <<>>],
            lookups |-> 0]

GetChemspiderHits(feature_ids) ==
    /\ pydx.lookups < MaxLookups
    /\ pydx' = [fn |-> "get_chemspider_hits_for_feature", feature_ids |-> feature_ids,
                out |-> get_chemspider_hits_for_feature(feature_ids),
                lookups |-> pydx.lookups + 1]
    /\ UNCHANGED <<numpy_wraps, frame, xml, lazy, access, applied>>

GetMzcloudSearchResults(feature_ids) ==
    /\ pydx.lookups < MaxLookups
    /\ pydx' = [fn |-> "get_mzcloud_search_results_for_feature", feature_ids |-> feature_ids,
                out |-> get_mzcloud_search_results_for_feature(feature_ids),
                lookups |-> pydx.lookups + 1]
    /\ UNCHANGED <<numpy_wraps, frame, xml, lazy, access, applied>>

GetCompoundSpectra(feature_ids) ==
    /\ pydx.lookups < MaxLookups
    /\ pydx' = [fn |-> "get_compound_spectra", feature_ids |-> feature_ids,
                out |-> get_compound_spectra(feature_ids),
                lookups |-> pydx.lookups + 1]
    /\ UNCHANGED <<numpy_wraps, frame, xml, lazy, access, applied>>

(***************************************************************************)
(* Specifications.                                                         *)
(***************************************************************************)
LazyUnused == LazyBlob(<<>>)

\* one caller applying the decoders to every blob of Inputs
InitDecode ==
    /\ numpy_wraps \in BOOLEAN
    /\ frame = [t \in Threads |-> Idle]
    /\ xml = XmlIdle
    /\ lazy = LazyUnused
    /\ access = [t \in Threads |-> NoAccess]
    /\ applied = {}
    /\ pydx = DbFresh

NextDecode ==
    \/ \E dec \in Decoders : \E blb \in Inputs(dec) : Call(1, dec, blb)
    \/ Finish(1)
    \/ Return(1)

SpecDecode == InitDecode /\ [][NextDecode]_vars

\* several threads decoding at once
NextThreads ==
    \E t \in Threads :
        \/ \E dec \in Decoders : \E blb \in SharedInputs(dec) : Call(t, dec, blb)
        \/ Finish(t)
        \/ Return(t)

SpecThreads == InitDecode /\ [][NextThreads]_vars

\* one caller applying the XML extractors to every document of XmlInputs
NextXml ==
    \/ \E fn \in Extractors : \E blb \in XmlInputs(fn) : XmlCall(fn, blb)
    \/ XmlFinish
    \/ XmlReturn

SpecXml == InitDecode /\ [][NextXml]_vars

\* threads reading the data property of one LazyBlob
InitLazy ==
    /\ numpy_wraps \in BOOLEAN
    /\ frame = [t \in Threads |-> Idle]
    /\ xml = XmlIdle
    /\ lazy \in {LazyBlob(raw) : raw \in RawBlobs}
    /\ access = [t \in Threads |-> NoAccess]
    /\ applied = {}
    /\ pydx = DbFresh

NextLazy ==
    \E t \in Threads :
        \/ Test(t)
        \/ Apply(t)
        \/ StoreData(t)
        \/ SetDecoded(t)
        \/ ReturnData(t)

SpecLazy == InitLazy /\ [][NextLazy]_vars

\* lookups on one PyDX object
NextDb ==
    \E feature_ids \in SeqsUpTo(FeatureIds, MaxIds) :
        \/ GetChemspiderHits(feature_ids)
        \/ GetMzcloudSearchResults(feature_ids)
        \/ GetCompoundSpectra(feature_ids)

SpecDb == InitDecode /\ [][NextDb]_vars

(***************************************************************************)
(* Properties of the byte decoders.                                        *)
(***************************************************************************)
Returned(t, decs) == frame[t].pc = "returned" /\ frame[t].dec \in decs

\* the 8 little-endian bytes of a binary64 number
Float64Bytes(d) ==
    <<d.frac_lo % 256, (d.frac_lo \div 256) % 256, d.frac_lo \div 65536,
      d.frac_mid % 256, (d.frac_mid \div 256) % 256, d.frac_mid \div 65536,
      (d.exponent % 16) * 16 + d.frac_hi, d.sign * 128 + d.exponent \div 16>>

\* each pair written back as 8 value bytes followed by its flag byte
Serialize(values, flags) ==
    Flatten([k \in 1..Len(values) |-> Float64Bytes(values[k]) \o <<flags[k]>>])

\* the exceptions a decoder raises for a byte count it does not accept
MalformedLength == {"AssertionError", "struct.error", "ValueError"}

\* C1: a stride-9 blob whose length is a multiple of 9 decodes to values and
\* flags of len(blob)/9 entries each, and writing the pairs back as 8 value
\* bytes and 1 flag byte reproduces the blob.
C1_RoundTrip ==
    \A t \in Threads :
        Returned(t, Stride9) /\ Len(frame[t].blb) % 9 = 0 =>
            /\ frame[t].out.exc = ""
            /\ Len(frame[t].out.values) = Len(frame[t].blb) \div 9
            /\ Len(frame[t].out.flags) = Len(frame[t].blb) \div 9
            /\ Serialize(frame[t].out.values, frame[t].out.flags) = frame[t].blb

C1_Witness ==
    \E t \in Threads :
        /\ Returned(t, Stride9)
        /\ Len(frame[t].blb) = 18
        /\ frame[t].out.exc = ""
        /\ frame[t].out.values[1] # frame[t].out.values[2]

\* C2: a stride-9 blob whose length is not a multiple of 9 fails on the
\* length check, before any byte is unpacked, and returns no arrays.
C2_Stride9Rejects ==
    \A t \in Threads :
        Returned(t, Stride9) /\ Len(frame[t].blb) % 9 # 0 =>
            /\ frame[t].out.exc = "AssertionError"
            /\ frame[t].out.values = <<>>
            /\ frame[t].out.flags = <<>>

C2_Witness ==
    \E t \in Threads :
        /\ Returned(t, {"decode_peak_areas"})
        /\ Len(frame[t].blb) = 17
        /\ frame[t].out.exc \in MalformedLength

BitsOf(dec) == IF dec = "decode_gap_fill_status" THEN 16 ELSE 8

\* C3: for every 5-byte group whose first 4 bytes hold the signed 32-bit v,
\* decode_gap_fill_status outputs v mod 2^16 and decode_gap_status v mod 2^8;
\* the narrowing never raises.
C3_NarrowingTruncates ==
    \A t \in Threads :
        Returned(t, Stride5) /\ Len(frame[t].blb) % 5 = 0 =>
            /\ frame[t].out.exc = ""
            /\ Len(frame[t].out.values) = Len(frame[t].blb) \div 5
            /\ \A k \in 1..Len(frame[t].out.values) :
                  frame[t].out.values[k] =
                      Int32LE(SubSeq(frame[t].blb, 5 * k - 4, 5 * k - 1)) % (2 ^ BitsOf(frame[t].dec))

\* every group of the blob holds a value the output width can hold
InRange(dec, blb) ==
    \A k \in 1..(Len(blb) \div 5) :
        LET v == Int32LE(SubSeq(blb, 5 * k - 4, 5 * k - 1))
        IN  v >= 0 /\ v < 2 ^ BitsOf(dec)

\* C4: the stride-5 decoders decode a blob whose length is a multiple of 5 to
\* len(blob)/5 entries and reject every other blob.  (The first half is
\* stated for groups the output width can hold.)
C4_Stride5Length ==
    \A t \in Threads :
        Returned(t, Stride5) =>
            IF Len(frame[t].blb) % 5 = 0
            THEN InRange(frame[t].dec, frame[t].blb) =>
                    /\ frame[t].out.exc = ""
                    /\ Len(frame[t].out.values) = Len(frame[t].blb) \div 5
            ELSE frame[t].out.exc \in MalformedLength

\* C5: decode_retention_times returns exactly n values, n the little-endian
\* prefix, if and only if the remaining byte count is 8 * n; every other blob
\* fails on its length and returns no array.
C5_RetentionTimes ==
    \A t \in Threads :
        Returned(t, {"decode_retention_times"}) =>
            LET b == frame[t].blb
                fits == /\ Len(b) >= 4
                        /\ Len(b) - 4 = 8 * (b[1] + 256 * b[2] + 65536 * b[3] + 16777216 * b[4])
            IN  IF fits
                THEN /\ frame[t].out.exc = ""
                     /\ Len(frame[t].out.values) = b[1] + 256 * b[2] + 65536 * b[3] + 16777216 * b[4]
                ELSE /\ frame[t].out.exc \in MalformedLength
                     /\ frame[t].out.values = <<>>

C5_Witness ==
    \E t \in Threads :
        /\ Returned(t, {"decode_retention_times"})
        /\ frame[t].out.exc = ""
        /\ Len(frame[t].out.values) = 2
        /\ frame[t].blb[1] = 2

XmlReturned(fn) == xml.pc = "returned" /\ xml.fn = fn

PeaksOf(blb) == SelectSeq(blb.PeakCentroids.children, LAMBDA c : c.tag = "Peak")

Numeric(e) == e.at = "text" /\ e.text # <<>> /\ \A k \in 1..Len(e.text) : IsDigit(e.text[k])

NonNumeric(e) == e.at = "text" /\ ~Numeric(e)

AttrNames == {"X", "Y", "Z", "R", "SN"}

\* the number a numeric text denotes, digit by digit from the left
NumberOf(e) ==
    LET RECURSIVE val(_, _)
        val(k, acc) == IF k > Len(e.text) THEN acc
                       ELSE val(k + 1, 10 * acc + DigitValue(e.text[k]))
    IN  val(1, 0)

\* C6: a spectrum document whose PeakCentroids has N Peak children decodes to
\* a table of exactly N rows, row i built from the i-th Peak in document
\* order with X->mz, Y->intensity, Z->charge, R->resolution, SN->signal-to-
\* noise; N = 0 gives an empty table and no error.
C6_SpectrumRows ==
    XmlReturned("decode_spectrum") /\ xml.blb.outer = "ok" /\ xml.blb.PeakCentroids.present
    /\ (\A k \in 1..Len(PeaksOf(xml.blb)) : \A a \in AttrNames : Numeric(PeaksOf(xml.blb)[k].attrib[a]))
    => /\ xml.out.exc = ""
       /\ Len(xml.out.values) = Len(PeaksOf(xml.blb))
       /\ \A k \in 1..Len(PeaksOf(xml.blb)) :
            LET pk == PeaksOf(xml.blb)[k].attrib
                row == xml.out.values[k]
            IN  /\ row.mz = NumberOf(pk.X)
                /\ row.intensity = NumberOf(pk.Y)
                /\ row.Z = NumberOf(pk.Z)
                /\ row.resolution = NumberOf(pk.R)
                /\ row.signalNoiseRatio = NumberOf(pk.SN)

C6_Witness ==
    /\ XmlReturned("decode_spectrum")
    /\ Len(xml.blb.PeakCentroids.children) = 3
    /\ Len(xml.out.values) = 2
    /\ xml.out.values[1].mz = 12
    /\ xml.out.values[2].mz = 1

\* N = 0: the empty table
C6_WitnessEmpty ==
    /\ XmlReturned("decode_spectrum")
    /\ xml.blb.PeakCentroids.present /\ xml.blb.PeakCentroids.children = <<>>
    /\ xml.out = Ok(<<>>, <<>>)

\* the exceptions that stand for the two typed failures of the extractors
MissingField == {"AttributeError", "KeyError"}
ParseError == {"ValueError"}

FieldsOf(blb) == {blb.ApexRT, blb.LeftRT, blb.RightRT, blb.Width}

DoublesOf(blb) == {blb.IntensityRange.doubles[k] : k \in 1..Len(blb.IntensityRange.doubles)}

\* C7: decode_peak_model fails with MissingField when Data or one of ApexRT,
\* LeftRT, RightRT, Width, IntensityRange with its two double entries is
\* absent; decode_spectrum fails with MissingField when PeakCentroids is
\* absent; both fail with ParseError on non-numeric text; a failing call
\* returns nothing.  (Stated for documents with one kind of defect.)
C7_TypedFailures ==
    /\ xml.pc = "returned" /\ xml.out.exc # "" => xml.out.values = <<>>
    /\ XmlReturned("decode_peak_model") /\ xml.blb.outer = "ok" =>
          /\ xml.blb.Data = "absent" => xml.out.exc \in MissingField
          /\ xml.blb.Data = "ok" /\ xml.blb.inner = "ok" =>
                LET absent == \/ Absent \in FieldsOf(xml.blb)
                              \/ ~xml.blb.IntensityRange.present
                              \/ Len(xml.blb.IntensityRange.doubles) < 2
                    bad == \E e \in FieldsOf(xml.blb) \cup DoublesOf(xml.blb) : NonNumeric(e)
                    empty == Empty \in FieldsOf(xml.blb) \cup DoublesOf(xml.blb)
                IN  /\ absent /\ ~bad /\ ~empty => xml.out.exc \in MissingField
                    /\ bad /\ ~absent /\ ~empty => xml.out.exc \in ParseError
    /\ XmlReturned("decode_spectrum") /\ xml.blb.outer = "ok" =>
          /\ ~xml.blb.PeakCentroids.present => xml.out.exc \in MissingField
          /\ /\ xml.blb.PeakCentroids.present
             /\ \A k \in 1..Len(PeaksOf(xml.blb)) : \A a \in AttrNames :
                    PeaksOf(xml.blb)[k].attrib[a].at = "text"
             /\ \E k \in 1..Len(PeaksOf(xml.blb)) : \E a \in AttrNames :
                    NonNumeric(PeaksOf(xml.blb)[k].attrib[a])
             => xml.out.exc \in ParseError

(***************************************************************************)
(* Properties of LazyBlob and of the feature lookups.                      *)
(***************************************************************************)
\* C9: under any interleaving of accesses, the holder is undecoded holding
\* the raw bytes or decoded holding decoder(raw) (looked at when no access is
\* between its two assignments); the decoder is applied to the raw bytes
\* only, and not again once the holder is decoded.
C9_LazyBlobStates ==
    /\ \A a \in applied : a.arg = lazy.raw /\ ~a.decoded
    /\ (\A t \in Threads : access[t].pc # "flag") =>
          \/ ~lazy._decoded /\ lazy._data = lazy.raw
          \/ /\ lazy._decoded
             /\ LazyDecoder(lazy.raw).exc = ""
             /\ lazy._data = LazyDecoder(lazy.raw).values

\* C10: each lookup raises ValueError and issues no query for an empty
\* feature_ids, and for a non-empty one issues exactly one query, on the
\* object's own engine, for the rows whose feature id is in feature_ids, and
\* returns its table under the fixed column list.
C10_Lookups ==
    pydx.fn \in Lookups =>
        IF pydx.feature_ids = <<>>
        THEN pydx.out.exc = "ValueError" /\ pydx.out.issued = <<>>
        ELSE /\ pydx.out.exc = ""
             /\ Len(pydx.out.issued) = 1
             /\ pydx.out.issued[1].con = "self"
             /\ pydx.out.table[1].columns = Columns(pydx.fn)
             /\ pydx.out.table[1].rows =
                   {r \in JoinedRows(pydx.fn) :
                       \E k \in 1..Len(pydx.feature_ids) : r.FeatureID = pydx.feature_ids[k]}

====
